---- MODULE Spec2Model ----
(***************************************************************************)
(* A model of MEGA Manager (src/megaManager.py, src/libs/lib.py).          *)
(*                                                                         *)
(* src/megaManager.py carries unresolved merge markers; the model follows  *)
(* the HEAD side of every conflict, which is the side that holds the       *)
(* profile based code (SyncProfile, PathMapping).                          *)
(*                                                                         *)
(* Thirteen specifications share the variables:                            *)
(*   Spec         MegaManager.run(): the task orchestrator, its worker     *)
(*                registry, the creator thread, the wait loop, the export, *)
(*                _tear_down.                                              *)
(*   SpecRun      the same, for runs with one more flag-controlled worker. *)
(*   SpecDetails  the same, for runs with one more profile.                *)
(*   SpecLive     the same, with every thread running on.                  *)
(*   SpecMain     main(): _setup, then run().                              *)
(*   SpecPipe     the compression pipeline (image and video passes).       *)
(*   SpecImages   the compression pipeline, image passes only.             *)
(*   SpecVideos   the compression pipeline, video passes only.             *)
(*   SpecRetries  one video file of the pipeline, statement by statement.  *)
(*   SpecPrune    the remote pruning pipeline.                             *)
(*   SpecRemovers the remote deletion called for two accounts at once.     *)
(*   SpecAdds     the compression and the pruning pipelines together.      *)
(*   SpecLib      Lib.dump_list_into_file and Lib.load_file_as_list.       *)
(***************************************************************************)
EXTENDS Integers, Sequences, FiniteSets, TLC

\* ------------------------------------------------------------------ bounds

\* Profiles read from the configuration file (len(self.__syncProfiles)).
MaxProfiles == 1
\* Accounts in self.__foundUserPass, when that attribute is set at all.
MaxAccounts == 1
\* Flag-controlled workers a run may schedule beside the detail gatherers.
MaxFlagWorkers == 1
\* The same, for the runs in which _tear_down is examined.
MaxRunWorkers == 2
\* Profiles (one path mapping each) the compression pipeline walks.
MaxPipeProfiles == 2
\* Entries of the remote listings, over all path mappings together.
MaxRemoteEntries == 2
\* Passes of the compression pipeline (each pass is one run of the program).
MaxPasses == 2
\* Length of the lists handed to Lib.dump_list_into_file.
MaxItems == 2
\* Profiles of the runs in which the detail gatherers' writes are examined.
MaxDetailProfiles == 2

\* ------------------------------------------------------------- orchestrator

VARIABLES
    flags,                  \* the feature flags of the run (self.__download, ...)
    numProfiles,            \* len(self.__syncProfiles)
    foundUserPass,          \* self.__foundUserPass: whether it is set, and its length
    setupOutcome,           \* how _setup ended ("pending" before it has run)
    threads,                \* self.__threads, the worker registry (a Python list)
    threadState,            \* per thread: "none" (not created), "alive", "dead"
    mainPc,                 \* position of the main flow inside run()
    waitIdx,                \* index of the list iterator of the for loop (1-based)
    megaFileThreads_found,  \* local of _wait_for_threads_to_finish
    megaFileFinished,       \* local of _wait_for_threads_to_finish
    waitState,              \* "notcalled", "running", "returned", "timedout", "raised"
    exportCount,            \* invocations of _export_accounts_details_dict
    accountsDetailsDictSet, \* whether self.__accounts_details_dict exists
    accounts_details_dict,  \* the keys of self.__accounts_details_dict
    profiles,               \* self.__syncProfiles: the mutable fields of each profile
    exported,               \* what the last export wrote
    creatorPc,              \* position of the creator thread
    creatorIdx,             \* profile the creator thread is at (1-based)
    tearDownCount,          \* invocations of _tear_down
    assignedLists,          \* the processed-list attributes assigned so far
    tearDownLog             \* what the last _tear_down did

inputVars == <<flags, numProfiles, foundUserPass, setupOutcome>>
registryVars == <<threads, threadState>>
waitVars == <<waitIdx, megaFileThreads_found, megaFileFinished, waitState>>
creatorVars == <<creatorPc, creatorIdx>>
exportVars == <<exportCount, exported>>
dictVars == <<accountsDetailsDictSet, accounts_details_dict>>
detailVars == <<dictVars, profiles>>

tearDownVars == <<tearDownCount, tearDownLog>>
tearDownAll == <<tearDownVars, assignedLists>>

orchVars == <<inputVars, registryVars, waitVars, creatorVars, mainPc,
              exportVars, detailVars, tearDownAll>>

\* ----------------------------------------------------- compression pipeline

VARIABLES
    remoteEntries,                \* the remote files (what megals lists), unchanged by a pass
    localFiles,                   \* local paths for which path.isfile / path.exists holds
    sidecars,                     \* local paths p for which p + '.compressimages-backup' exists
    compressedImageFiles,         \* self.__compressedImageFiles
    unableToCompressImageFiles,   \* self.__unableToCompressImageFiles
    compressedVideoFiles,         \* self.__compressedVideoFiles
    unableToCompressVideoFiles,   \* self.__unableToCompressVideoFiles
    compressedFiles,              \* self.compressedFiles (the attribute line 753 creates)
    files,                        \* the persisted lists, by file
    dumpFailed,                   \* the files whose latest dump_list_into_file failed
    pipePc,                       \* position of the compression thread
    passes,                       \* passes started so far, by category
    loaded,                       \* the two lists as loaded at the start of the pass
    callCount,                    \* Media Transcoder invocations, per operation and path
    lastCall,                     \* the latest transcoder call of the pass and its outcome
    addedUnableImages,            \* paths the pass appended to the unable-images list
    videoFile                     \* one video file's processing, statement by statement

pipeSets == <<compressedImageFiles, unableToCompressImageFiles,
              compressedVideoFiles, unableToCompressVideoFiles, compressedFiles>>

storeVars == <<files, dumpFailed>>

pipeHistory == <<loaded, callCount, lastCall, addedUnableImages>>

pipeVars == <<remoteEntries, localFiles, sidecars, pipeSets, storeVars, pipePc,
              passes, pipeHistory, videoFile>>

pipeOnlyVars == <<remoteEntries, sidecars, pipeSets, pipePc, passes, pipeHistory,
                  videoFile>>

\* ---------------------------------------------------------- remote pruning

VARIABLES
    remoteFiles,          \* what get_remote_file_paths_recursively returns
    removedRemoteFiles,   \* self.__removedRemoteFiles
    dontExistLocally,     \* the list _get_remote_files_that_dont_exist_locally returns
    prunePc,              \* position of the pruning code
    deleteCalls,          \* the remoteFilePath of every remove_remote_file call
    removers,             \* two callers of the deletion running side by side
    notDeleted            \* the paths whose remove_remote_file call deleted nothing

pruneVars == <<remoteFiles, removedRemoteFiles, dontExistLocally, prunePc, deleteCalls,
               removers, notDeleted>>

\* ------------------------------------------------- the library (libs/lib.py)

VARIABLES
    callerList,   \* the list a caller holds
    disk,         \* the .npz files, by path
    intact,       \* the files that hold what a dump of callerList wrote
    loadResult    \* the outcome of the latest load_file_as_list

libVars == <<callerList, disk, intact, loadResult>>

vars == <<orchVars, pipeVars, pruneVars, libVars>>

nonOrchVars == <<pipeVars, pruneVars, libVars>>
nonPipeVars == <<orchVars, pruneVars, libVars>>
nonPruneVars == <<orchVars, pipeOnlyVars, libVars>>
nonLibVars == <<orchVars, pipeVars, pruneVars>>

\* ----------------------------------------------------------------- helpers

Range(s) == {s[i] : i \in 1..Len(s)}

\* list.remove(x): removes the first element equal to x.
RemoveFirst(s, x) ==
    LET i == CHOOSE k \in 1..Len(s) : s[k] = x /\ \A j \in 1..(k-1) : s[j] # x
    IN  [k \in 1..(Len(s)-1) |-> IF k < i THEN s[k] ELSE s[k+1]]

\* ----------------------------------------------------------- thread names

Thread(kind, n) == [kind |-> kind, n |-> n]

CreatorThread == Thread("create_profiles_data_file", 0)
MegaFileThread(p) == Thread("megaFile", p)

AllThreads ==
    {CreatorThread, Thread("download", 0), Thread("upload", 0),
     Thread("compressImages", 0), Thread("compressVideos", 0)}
    \cup {MegaFileThread(p) : p \in 1..MaxDetailProfiles}
    \cup {Thread("unfinishedFileRemover", p) : p \in 1..MaxProfiles}
    \cup {Thread("remoteFileRemover", a) : a \in 1..MaxAccounts}

\* 'megaFile' in thread.name
IsMegaFileThread(t) == t.kind = "megaFile"

FlagNames == {"download", "upload", "removeRemote", "removeIncomplete",
              "compressAll", "compressImages", "compressVideos"}

\* The threads run() schedules for the flags, beside the creator thread.
FlagWorkers(f, np, fup) ==
    (IF f["removeIncomplete"] THEN np ELSE 0)
    + (IF f["download"] THEN 1 ELSE 0)
    + (IF f["upload"] THEN 1 ELSE 0)
    + (IF f["removeRemote"] /\ fup.set THEN fup.n ELSE 0)
    + (IF f["compressAll"] THEN 2
       ELSE IF f["compressImages"] \/ f["compressVideos"] THEN 1 ELSE 0)

\* ------------------------------------------------- paths and remote listings

\* COMPRESSION_IMAGE_EXTENSIONS, COMPRESSION_VIDEO_EXTENSIONS (without the dot)
COMPRESSION_IMAGE_EXTENSIONS == {"jpg", "jpeg", "png"}
COMPRESSION_VIDEO_EXTENSIONS == {"avi", "mp4", "wmv"}

\* The persisted lists (the .npz files under data\).
FileNames == {"compressed_images", "unable_to_compress_images",
              "compressed_videos", "unable_to_compress_videos",
              "removed_remote_files"}

\* A path is a root, a file name stem and an extension; the stem is a name
\* followed by `news` copies of the suffix '_NEW'.
Path(root, news, ext) == [root |-> root, name |-> "a", news |-> news, ext |-> ext]

\* The roots of the path mapping of profile m.
RemoteRoot(m) == [side |-> "remote", m |-> m]
LocalRoot(m) == [side |-> "local", m |-> m]

\* What a line of a remote listing may be: its type ('0' is a plain file) and
\* its extension.
EntryKinds == << [type |-> "0", ext |-> "jpg"], [type |-> "1", ext |-> "png"],
                 [type |-> "0", ext |-> "avi"], [type |-> "0", ext |-> "mp4"] >>

Entry(m, kind) == [type |-> kind.type, path |-> Path(RemoteRoot(m), 0, kind.ext)]

RemoteEntryUniverse ==
    {Entry(m, EntryKinds[i]) : m \in 1..MaxPipeProfiles, i \in 1..Len(EntryKinds)}

\* file_subPath = sub(remoteRoot, '', remote_filePath)
\* local_filePath = localRoot_adj + file_subPath
LocalFilePath(localRoot, remoteRoot, remote_filePath) ==
    [remote_filePath EXCEPT
        !.root = IF @ = remoteRoot THEN localRoot
                 ELSE [under |-> localRoot, rest |-> @]]

\* newFilePath = local_filePath.rsplit(".", 1)[0] + '_NEW.mp4'
NewFilePath(local_filePath) ==
    [local_filePath EXCEPT !.news = @ + 1, !.ext = "mp4"]

\* sub('_NEW', '', newFilePath): every '_NEW' is removed
WithoutNEW(newFilePath) == [newFilePath EXCEPT !.news = 0]

\* The local paths of the listed remote files.
LocalPathsOf(entries) ==
    {LocalFilePath(LocalRoot(e.path.root.m), e.path.root, e.path) : e \in entries}

LocalPathUniverse == LocalPathsOf(RemoteEntryUniverse)

\* The operations of the Media Transcoder and what they may be invoked on.
TranscoderCalls == [op : {"image", "video"}, path : LocalPathUniverse]

\* get_remote_file_data_recursively(remotePath=remoteRoot) for the path mapping
\* of profile m: the lines of the listing, in the remote's order.
Listing(m) ==
    SelectSeq([i \in 1..Len(EntryKinds) |-> Entry(m, EntryKinds[i])],
              LAMBDA e : e \in remoteEntries)

\* A fixed order of the local paths (the order a list read from a file has).
PathOrder ==
    [i \in 1..(MaxPipeProfiles * Len(EntryKinds)) |->
        Path(LocalRoot(((i - 1) \div Len(EntryKinds)) + 1), 0,
             EntryKinds[((i - 1) % Len(EntryKinds)) + 1].ext)]

ListOf(paths) == SelectSeq(PathOrder, LAMBDA p : p \in paths)

IsImagePath(p) == p.ext \in COMPRESSION_IMAGE_EXTENSIONS
IsVideoPath(p) == p.ext \in COMPRESSION_VIDEO_EXTENSIONS

\* ------------------------------------------------- the persistent list store

\* Lib.load_file_as_list: the list the file holds ([] for an absent file).
load_file_as_list(fs, filePath) == fs[filePath]

\* A dump that is put off: the file is left as it is.
dump_list_later(fs, itemList, filePath, ok) == fs

\* A dump that adds the newest item to what the file holds.
dump_newest_item_onto_file(fs, itemList, filePath, ok) ==
    IF ok /\ itemList # <<>>
    THEN [fs EXCEPT ![filePath] = Append(@, itemList[Len(itemList)])]
    ELSE fs

\* A dump that writes the newest item only.
dump_newest_item_into_file(fs, itemList, filePath, ok) ==
    IF ok
    THEN [fs EXCEPT ![filePath] =
             IF itemList = <<>> THEN <<>> ELSE <<itemList[Len(itemList)]>>]
    ELSE fs

\* Lib.dump_list_into_file: the file is overwritten with the list as it is;
\* a failing write is logged and leaves the file as it was.
dump_list_into_file(fs, itemList, filePath, ok) ==
    IF ok THEN [fs EXCEPT ![filePath] = itemList] ELSE fs

\* The record of which files' latest dump failed.
DumpRecord(failed, filePath, ok) ==
    IF ok THEN failed \ {filePath} ELSE failed \cup {filePath}

\* ------------------------------------------------------------- _tear_down

\* The process names _tear_down hands to kill_running_processes_with_name.
ToolProcesses == <<"megacopy.exe", "megals.exe", "megadf.exe", "ffmpeg.exe">>

\* The processed lists a scheduling call of run() assigns (each list is named
\* by the file it is loaded from): _create_threads_removed_remote_file_deletion,
\* _create_thread_compress_image_files, _create_thread_compress_video_files.
RemovedLists == {"removed_remote_files"}
ImageLists == {"compressed_images", "unable_to_compress_images"}
VideoLists == {"compressed_videos", "unable_to_compress_videos"}

\* if compressAll: images, videos / elif compressImages / elif compressVideos
CompressLists(f) ==
    IF f["compressAll"] THEN ImageLists \cup VideoLists
    ELSE IF f["compressImages"] THEN ImageLists
    ELSE IF f["compressVideos"] THEN VideoLists
    ELSE {}

\* The dumps _tear_down makes, in order, for the flags it tests.
TearDownDumps(f) ==
    (IF f["removeRemote"] THEN <<"removed_remote_files">> ELSE <<>>)
    \o (IF f["compressImages"]
        THEN <<"compressed_images", "unable_to_compress_images">> ELSE <<>>)
    \o (IF f["compressVideos"]
        THEN <<"compressed_videos", "unable_to_compress_videos">> ELSE <<>>)

\* Reading a list attribute that was never assigned raises AttributeError:
\* the dumps made are those before the first unassigned list.
DumpsMade(dumps, assigned) ==
    LET bad == {i \in DOMAIN dumps : dumps[i] \notin assigned}
    IN  IF bad = {} THEN dumps
        ELSE SubSeq(dumps, 1, (CHOOSE i \in bad : \A j \in bad : i <= j) - 1)

\* The body of _tear_down, one try block: the dumps, then the four kills; the
\* first exception ends it.  `failed` are the dumps whose write failed (which
\* dump_list_into_file catches itself), `killRaisesAt` the kill call that raised
\* (0: none; kill_running_processes_with_name catches nothing).
TearDown(f, assigned, failed, killRaisesAt) ==
    LET dumps == TearDownDumps(f)
        made == DumpsMade(dumps, assigned)
        attributeError == Len(made) < Len(dumps)
    IN  [called |-> TRUE,
         flushed |-> Range(made) \ failed,
         failed |-> Range(made) \cap failed,
         killed |-> IF attributeError THEN <<>>
                    ELSE IF killRaisesAt = 0 THEN ToolProcesses
                    ELSE SubSeq(ToolProcesses, 1, killRaisesAt),
         raised |-> attributeError \/ killRaisesAt # 0]

\* _tear_down on an object whose self.__lib was never created: the first read
\* of self.__lib raises AttributeError.
TearDownWithoutLib ==
    [called |-> TRUE, flushed |-> {}, failed |-> {}, killed |-> <<>>,
     raised |-> TRUE]

NoTearDown ==
    [called |-> FALSE, flushed |-> {}, failed |-> {}, killed |-> <<>>,
     raised |-> FALSE]

\* The ways _setup ends: without exception, with one raised before self.__lib
\* is created (lines 1277-1280), or with one raised after (line 1282).
SetupOutcomes == {"ok", "no_lib", "no_megaTools"}

\* Whether self.__lib exists.
LibCreated == setupOutcome \in {"ok", "no_megaTools"}

\* One invocation of _tear_down.
TearDownCall ==
    /\ tearDownCount' = tearDownCount + 1
    /\ IF LibCreated
       THEN \E failed \in SUBSET Range(TearDownDumps(flags)),
               killRaisesAt \in 0..Len(ToolProcesses) :
               tearDownLog' = TearDown(flags, assignedLists, failed, killRaisesAt)
       ELSE tearDownLog' = TearDownWithoutLib

\* No export has written anything.
NotExported == [fired |-> FALSE, records |-> {}]

\* A field no gatherer has written, and what a gateway call returns for it.
Unset == "unset"
Fetched == "fetched"

\* The profiles as the configuration import creates them.
ProfilesAsImported ==
    [p \in 1..MaxDetailProfiles |->
        [account_totalSpace |-> Unset, account_freeSpace |-> Unset,
         account_usedSpace |-> Unset, remotePath_usedSpace |-> Unset]]

\* A gatherer that writes the account fields of every profile.
UpdateEveryAccountRemoteDetails(ps, p) ==
    [q \in DOMAIN ps |->
        [ps[q] EXCEPT !.account_totalSpace = Fetched, !.account_freeSpace = Fetched,
                      !.account_usedSpace = Fetched]]

\* _update_account_remote_details(profile): the three account fields of the
\* profile handed in are assigned what the gateway returns.
UpdateAccountRemoteDetails(ps, p) ==
    [ps EXCEPT ![p] = [@ EXCEPT !.account_totalSpace = Fetched,
                                !.account_freeSpace = Fetched,
                                !.account_usedSpace = Fetched]]

\* -------------------------------------------------------------------- Init

\* The object after construction, with one of `counts` profiles imported.
InitObjectOf(counts, maxWorkers) ==
    /\ flags \in [FlagNames -> BOOLEAN]
    /\ numProfiles \in counts
    /\ foundUserPass \in {[set |-> FALSE, n |-> 0]}
                        \cup {[set |-> TRUE, n |-> a] : a \in 0..MaxAccounts}
    /\ FlagWorkers(flags, numProfiles, foundUserPass) <= maxWorkers
    /\ threads = <<>>
    /\ threadState = [t \in AllThreads |-> "none"]
    /\ waitIdx = 0
    /\ megaFileThreads_found = FALSE
    /\ megaFileFinished = FALSE
    /\ waitState = "notcalled"
    /\ exportCount = 0
    /\ accountsDetailsDictSet = FALSE
    /\ accounts_details_dict = {}
    /\ profiles = ProfilesAsImported
    /\ exported = NotExported
    /\ creatorPc = "none"
    /\ creatorIdx = 0
    /\ tearDownCount = 0
    /\ assignedLists = {}
    /\ tearDownLog = NoTearDown

InitObject(maxWorkers) == InitObjectOf(1..MaxProfiles, maxWorkers)

\* A constructed object whose _setup raised nothing, at the start of run().
InitOrchUpTo(maxWorkers) ==
    /\ InitObject(maxWorkers)
    /\ setupOutcome = "ok"
    /\ mainPc = "create_profiles_data_file"

\* No video file is being followed statement by statement.
VideoFileOff == [pc |-> "off"]

\* No pass of the compression pipeline is running.
PassOff ==
    /\ remoteEntries = {}
    /\ sidecars = {}
    /\ compressedImageFiles = <<>>
    /\ unableToCompressImageFiles = <<>>
    /\ compressedVideoFiles = <<>>
    /\ unableToCompressVideoFiles = <<>>
    /\ compressedFiles = <<>>
    /\ pipePc = [phase |-> "off"]
    /\ passes = [image |-> 0, video |-> 0]
    /\ loaded = [compressed |-> <<>>, unable |-> <<>>]
    /\ callCount = [c \in TranscoderCalls |-> 0]
    /\ lastCall = [called |-> FALSE]
    /\ addedUnableImages = {}

\* The compression pipeline is not running.
PipeOff == PassOff /\ videoFile = VideoFileOff

\* The two accounts whose deletions run side by side.
Removers == {"account_a", "account_b"}

\* A caller of the deletion that is not running.
RemoverOff == [phase |-> "off"]

RemoversOff == removers = [w \in Removers |-> RemoverOff]

\* The remote pruning pipeline is not running.
PruneOff ==
    /\ remoteFiles = <<>>
    /\ removedRemoteFiles = <<>>
    /\ dontExistLocally = <<>>
    /\ prunePc = [phase |-> "off"]
    /\ deleteCalls = <<>>
    /\ notDeleted = {}
    /\ RemoversOff

\* No local file and no persisted list.
StoreEmpty ==
    /\ localFiles = {}
    /\ files = [f \in FileNames |-> <<>>]
    /\ dumpFailed = {}

\* No library call is under study.
LibOff ==
    /\ callerList = <<>>
    /\ disk = [f \in {} |-> f]
    /\ intact = {}
    /\ loadResult = [called |-> FALSE]

InitOrch == InitOrchUpTo(MaxFlagWorkers)

Init == InitOrch /\ PipeOff /\ PruneOff /\ StoreEmpty /\ LibOff

\* The same runs with one more flag-controlled worker (compressAll schedules
\* two), for what _tear_down does.
InitRun ==
    InitOrchUpTo(MaxRunWorkers) /\ PipeOff /\ PruneOff /\ StoreEmpty /\ LibOff

\* ------------------------------------------------------- run(): scheduling

\* self.__threads.append(t); t.start()  for each thread of ts, in order.
AppendAndStart(ts) ==
    /\ threads' = threads \o ts
    /\ threadState' = [t \in AllThreads |->
                          IF t \in Range(ts) THEN "alive" ELSE threadState[t]]

\* The threads one scheduling call of run() creates when its flag is set.
SeqOf(kind, n) == [i \in 1..n |-> Thread(kind, i)]

\* One step of the scheduling part of run(): the call guarded by `enabled`
\* appends and starts `ts`; the main flow goes on to `next`.
Schedule(enabled, ts, next) ==
    /\ IF enabled THEN AppendAndStart(ts) ELSE UNCHANGED registryVars
    /\ mainPc' = next
    /\ UNCHANGED <<inputVars, waitVars, creatorVars, exportVars,
                   detailVars, tearDownVars>>

\* _create_thread_create_profiles_data_file, the first call of run()
CreateThreadCreateProfilesDataFile ==
    /\ mainPc = "create_profiles_data_file"
    /\ AppendAndStart(<<CreatorThread>>)
    /\ creatorPc' = "begin"
    /\ mainPc' = "remove_incomplete"
    /\ UNCHANGED <<inputVars, waitVars, creatorIdx, exportVars,
                   detailVars, tearDownAll>>
    /\ UNCHANGED nonOrchVars

\* if self.__removeIncomplete: _create_threads_local_unfinished_file_remover()
\* (one thread per profile and path mapping; a profile has one path mapping here)
CreateThreadsLocalUnfinishedFileRemover ==
    /\ mainPc = "remove_incomplete"
    /\ Schedule(flags["removeIncomplete"],
                SeqOf("unfinishedFileRemover", numProfiles), "download")
    /\ UNCHANGED assignedLists
    /\ UNCHANGED nonOrchVars

\* if self.__download: _create_thread_download()
CreateThreadDownload ==
    /\ mainPc = "download"
    /\ Schedule(flags["download"], <<Thread("download", 0)>>, "upload")
    /\ UNCHANGED assignedLists
    /\ UNCHANGED nonOrchVars

\* if self.__upload: _create_thread_upload()
CreateThreadUpload ==
    /\ mainPc = "upload"
    /\ Schedule(flags["upload"], <<Thread("upload", 0)>>, "remove_remote")
    /\ UNCHANGED assignedLists
    /\ UNCHANGED nonOrchVars

\* if self.__removeRemote: _create_threads_removed_remote_file_deletion()
\* The loop reads self.__foundUserPass, which HEAD's _setup no longer assigns
\* (line 1287 is commented out): unless a caller set it, the read raises
\* AttributeError, which run() catches.
CreateThreadsRemovedRemoteFileDeletion ==
    /\ mainPc = "remove_remote"
    /\ assignedLists' = IF flags["removeRemote"] /\ LibCreated
                        THEN assignedLists \cup RemovedLists
                        ELSE assignedLists
    /\ IF flags["removeRemote"] /\ (~LibCreated \/ ~foundUserPass.set)
       THEN /\ mainPc' = "except"
            /\ UNCHANGED <<inputVars, registryVars, waitVars, creatorVars,
                           exportVars, detailVars, tearDownVars>>
       ELSE Schedule(flags["removeRemote"],
                     SeqOf("remoteFileRemover", foundUserPass.n),
                     "compress")
    /\ UNCHANGED nonOrchVars

\* if compressAll: images, videos / elif compressImages / elif compressVideos
CompressThreads(f) ==
    IF f["compressAll"]
    THEN <<Thread("compressImages", 0), Thread("compressVideos", 0)>>
    ELSE IF f["compressImages"] THEN <<Thread("compressImages", 0)>>
    ELSE IF f["compressVideos"] THEN <<Thread("compressVideos", 0)>>
    ELSE <<>>

\* Without self.__lib the first load_file_as_list of an enabled compression
\* raises AttributeError, which run() catches.
CreateThreadsCompress ==
    /\ mainPc = "compress"
    /\ IF CompressThreads(flags) # <<>> /\ ~LibCreated
       THEN /\ mainPc' = "except"
            /\ UNCHANGED <<inputVars, registryVars, waitVars, creatorVars,
                           exportVars, detailVars, tearDownAll>>
       ELSE /\ Schedule(TRUE, CompressThreads(flags), "wait_call")
            /\ assignedLists' = assignedLists \cup CompressLists(flags)
    /\ UNCHANGED nonOrchVars

\* ------------------------------------------------------------- the workers

\* _create_profiles_data_file, first statements: the dict is created, then the
\* output file is opened; a failing open is caught and ends the thread.
CreatorBegin ==
    /\ creatorPc = "begin"
    /\ accountsDetailsDictSet' = TRUE
    /\ accounts_details_dict' = {}
    /\ \E opened \in BOOLEAN :
          IF opened
          THEN /\ creatorPc' = "start"
               /\ creatorIdx' = 1
               /\ UNCHANGED threadState
          ELSE /\ creatorPc' = "done"
               /\ creatorIdx' = 0
               /\ threadState' = [threadState EXCEPT ![CreatorThread] = "dead"]
    /\ UNCHANGED <<inputVars, threads, waitVars, mainPc, exportVars,
                   tearDownAll, profiles>>
    /\ UNCHANGED nonOrchVars

\* A creator that registers a detail gatherer without starting it.
CreatorStartNothing ==
    /\ creatorPc = "start"
    /\ creatorIdx <= numProfiles
    /\ creatorPc' = "append"
    /\ UNCHANGED <<inputVars, registryVars, waitVars, creatorIdx, mainPc,
                   exportVars, detailVars, tearDownAll>>
    /\ UNCHANGED nonOrchVars

\* t_megaFile.start()
CreatorStart ==
    /\ creatorPc = "start"
    /\ creatorIdx <= numProfiles
    /\ threadState' = [threadState EXCEPT ![MegaFileThread(creatorIdx)] = "alive"]
    /\ creatorPc' = "append"
    /\ UNCHANGED <<inputVars, threads, waitVars, creatorIdx, mainPc,
                   exportVars, detailVars, tearDownAll>>
    /\ UNCHANGED nonOrchVars

\* A creator that leaves the gatherer it started out of the registry.
CreatorAppendDropped ==
    /\ creatorPc = "append"
    /\ creatorIdx' = creatorIdx + 1
    /\ creatorPc' = "start"
    /\ UNCHANGED <<inputVars, registryVars, waitVars, mainPc, exportVars,
                   detailVars, tearDownAll>>
    /\ UNCHANGED nonOrchVars

\* self.__threads.append(t_megaFile)
CreatorAppend ==
    /\ creatorPc = "append"
    /\ threads' = Append(threads, MegaFileThread(creatorIdx))
    /\ creatorIdx' = creatorIdx + 1
    /\ creatorPc' = "start"
    /\ UNCHANGED <<inputVars, threadState, waitVars, mainPc, exportVars,
                   detailVars, tearDownAll>>
    /\ UNCHANGED nonOrchVars

\* the for loop over the profiles is exhausted: outs.close(), the thread ends
CreatorFinish ==
    /\ creatorPc = "start"
    /\ creatorIdx > numProfiles
    /\ creatorPc' = "done"
    /\ threadState' = [threadState EXCEPT ![CreatorThread] = "dead"]
    /\ UNCHANGED <<inputVars, threads, waitVars, creatorIdx, mainPc,
                   exportVars, detailVars, tearDownAll>>
    /\ UNCHANGED nonOrchVars

\* Any other worker runs to completion (workers are never cancelled).  A
\* detail gatherer (_get_profile_details) updates the fields of its profile
\* object and stores nothing in self.__accounts_details_dict.
WorkerFinish(t) ==
    /\ t # CreatorThread
    /\ threadState[t] = "alive"
    /\ threadState' = [threadState EXCEPT ![t] = "dead"]
    /\ profiles' = IF IsMegaFileThread(t)
                   THEN UpdateAccountRemoteDetails(profiles, t.n)
                   ELSE profiles
    /\ UNCHANGED <<inputVars, threads, waitVars, creatorVars, mainPc,
                   exportVars, dictVars, tearDownAll>>
    /\ UNCHANGED nonOrchVars

\* --------------------------------------------- _wait_for_threads_to_finish

\* A wait loop that forgets its megaFileFinished flag.
ShouldExportEveryPass(found, finished) == ~found

\* The export condition of the wait loop.
ShouldExport(found, finished) == ~found /\ ~finished

\* run() calls _wait_for_threads_to_finish(): startTime, megaFileFinished = False
WaitCall ==
    /\ mainPc = "wait_call"
    /\ megaFileFinished' = FALSE
    /\ waitState' = "running"
    /\ mainPc' = "while"
    /\ UNCHANGED <<inputVars, registryVars, waitIdx, megaFileThreads_found,
                   creatorVars, exportVars, detailVars,
                   tearDownAll>>
    /\ UNCHANGED nonOrchVars

\* A timeout branch that ends the workers and empties the registry.
WaitTimedOutCancelling ==
    /\ waitState' = "timedout"
    /\ mainPc' = "end"
    /\ threads' = <<>>
    /\ threadState' = [t \in AllThreads |->
                          IF threadState[t] = "alive" THEN "dead" ELSE threadState[t]]
    /\ UNCHANGED waitIdx

\* else: logger.debug(... TIMED OUT ...); return
WaitTimedOut ==
    /\ waitState' = "timedout"
    /\ mainPc' = "end"
    /\ UNCHANGED <<waitIdx, registryVars>>

\* while len(self.__threads) > 0: megaFileThreads_found = False;
\* if not time() - startTime > timeout: (enter the for loop) else: return
WaitWhile ==
    /\ mainPc = "while"
    /\ IF Len(threads) > 0
       THEN /\ megaFileThreads_found' = FALSE
            /\ \E expired \in BOOLEAN :
                  IF expired
                  THEN WaitTimedOut
                  ELSE /\ waitIdx' = 1
                       /\ mainPc' = "for"
                       /\ UNCHANGED <<waitState, registryVars>>
       ELSE /\ waitState' = "returned"
            /\ mainPc' = "end"
            /\ UNCHANGED <<waitIdx, megaFileThreads_found, registryVars>>
    /\ UNCHANGED <<inputVars, megaFileFinished, creatorVars,
                   exportVars, detailVars, tearDownAll>>
    /\ UNCHANGED nonOrchVars

\* A check that takes every thread to have finished.
isAliveNever(thread) == FALSE

\* thread.isAlive()
isAlive(thread) == threadState[thread] = "alive"

\* One iteration of `for thread in self.__threads`: the list iterator yields
\* the element at its index and advances by one, also after a removal.
WaitFor ==
    /\ mainPc = "for"
    /\ waitIdx <= Len(threads)
    /\ LET thread == threads[waitIdx] IN
          IF ~isAlive(thread)
          THEN /\ threads' = RemoveFirst(threads, thread)
               /\ UNCHANGED megaFileThreads_found
          ELSE /\ megaFileThreads_found' =
                      (megaFileThreads_found \/ IsMegaFileThread(thread))
               /\ UNCHANGED threads
    /\ waitIdx' = waitIdx + 1
    /\ UNCHANGED <<inputVars, threadState, megaFileFinished, waitState,
                   creatorVars, mainPc, exportVars, detailVars,
                   tearDownAll>>
    /\ UNCHANGED nonOrchVars

\* The iterator is exhausted: the for loop ends.
WaitForExhausted ==
    /\ mainPc = "for"
    /\ waitIdx > Len(threads)
    /\ mainPc' = "after_for"
    /\ UNCHANGED <<inputVars, registryVars, waitVars, creatorVars,
                   exportVars, detailVars, tearDownAll>>
    /\ UNCHANGED nonOrchVars

\* if not megaFileThreads_found and not megaFileFinished:
\*     self._export_accounts_details_dict(); megaFileFinished = True
\* The profiles whose detail gatherer has run to its end.
GatheringCompleted ==
    {p \in 1..numProfiles : threadState[MegaFileThread(p)] = "dead"}

\* The export reads self.__accounts_details_dict, which only the creator thread
\* creates: before that the call raises AttributeError out of the wait loop.
WaitExport ==
    /\ mainPc = "after_for"
    /\ IF ShouldExport(megaFileThreads_found, megaFileFinished)
       THEN /\ exportCount' = exportCount + 1
            /\ IF accountsDetailsDictSet
               THEN /\ exported' = [fired |-> TRUE,
                                    records |-> accounts_details_dict]
                    /\ megaFileFinished' = TRUE
                    /\ mainPc' = "while"
                    /\ UNCHANGED waitState
               ELSE /\ waitState' = "raised"
                    /\ mainPc' = "except"
                    /\ UNCHANGED <<megaFileFinished, exported>>
       ELSE /\ mainPc' = "while"
            /\ UNCHANGED <<exportVars, megaFileFinished, waitState>>
    /\ UNCHANGED <<inputVars, registryVars, waitIdx, megaFileThreads_found,
                   creatorVars, detailVars, tearDownAll>>
    /\ UNCHANGED nonOrchVars

\* except Exception as e: self._tear_down()
RunExcept ==
    /\ mainPc = "except"
    /\ TearDownCall
    /\ mainPc' = "end"
    /\ UNCHANGED <<inputVars, registryVars, waitVars, creatorVars,
                   exportVars, detailVars, assignedLists>>
    /\ UNCHANGED nonOrchVars

Next ==
    \/ CreateThreadCreateProfilesDataFile
    \/ CreateThreadsLocalUnfinishedFileRemover
    \/ CreateThreadDownload
    \/ CreateThreadUpload
    \/ CreateThreadsRemovedRemoteFileDeletion
    \/ CreateThreadsCompress
    \/ CreatorBegin
    \/ CreatorStart
    \/ CreatorAppend
    \/ CreatorFinish
    \/ \E t \in AllThreads : WorkerFinish(t)
    \/ WaitCall
    \/ WaitWhile
    \/ WaitFor
    \/ WaitForExhausted
    \/ WaitExport
    \/ RunExcept


Spec == Init /\ [][Next]_vars

\* main(): MegaManager(**kwargs), whose __init__ ends with _setup(), then
\* run().  _setup catches its own exception and calls _tear_down(); __init__
\* returns either way and main() goes on to run().
Setup ==
    /\ mainPc = "setup"
    /\ \E outcome \in SetupOutcomes :
          /\ setupOutcome' = outcome
          /\ IF outcome = "ok"
             THEN UNCHANGED tearDownVars
             ELSE TearDownCall
    /\ mainPc' = "create_profiles_data_file"
    /\ UNCHANGED <<flags, numProfiles, foundUserPass, registryVars, waitVars,
                   creatorVars, exportVars, detailVars, assignedLists>>
    /\ UNCHANGED nonOrchVars

InitMain ==
    /\ InitObject(MaxFlagWorkers)
    /\ setupOutcome = "pending"
    /\ mainPc = "setup"
    /\ PipeOff /\ PruneOff /\ StoreEmpty /\ LibOff

NextMain == Setup \/ Next

SpecMain == InitMain /\ [][NextMain]_vars

\* A _setup that raised.
SetupRaised == setupOutcome \in {"no_lib", "no_megaTools"}

\* C26: once _setup has raised, _tear_down has run and no worker is scheduled.
C26_SetupFailureIsFatal ==
    SetupRaised => /\ tearDownCount >= 1
                   /\ \A t \in AllThreads : threadState[t] = "none"

SpecRun == InitRun /\ [][Next]_vars

\* The main flow of run().
MainFlow ==
    \/ CreateThreadCreateProfilesDataFile
    \/ CreateThreadsLocalUnfinishedFileRemover
    \/ CreateThreadDownload
    \/ CreateThreadUpload
    \/ CreateThreadsRemovedRemoteFileDeletion
    \/ CreateThreadsCompress
    \/ WaitCall
    \/ WaitWhile
    \/ WaitFor
    \/ WaitForExhausted
    \/ WaitExport
    \/ RunExcept

\* The creator thread.
CreatorFlow == CreatorBegin \/ CreatorStart \/ CreatorAppend \/ CreatorFinish

\* Every thread that can take a step eventually takes one: the main flow goes
\* on, the creator thread goes on, and every started worker finishes.
ThreadsRun ==
    /\ WF_vars(MainFlow)
    /\ WF_vars(CreatorFlow)
    /\ \A t \in AllThreads : WF_vars(WorkerFinish(t))

SpecLive == Init /\ [][Next]_vars /\ ThreadsRun

\* C36: once _wait_for_threads_to_finish is running, it eventually either
\* returns with an empty registry or takes its timeout branch.
C36_WaitEventuallyReturns ==
    (waitState = "running")
        ~> \/ waitState = "returned" /\ threads = <<>>
           \/ waitState = "timedout"

\* C37: when _wait_for_threads_to_finish has returned without timing out,
\* no thread that was started is still running.
C37_ReturnMeansAllFinished ==
    waitState = "returned" => \A t \in AllThreads : threadState[t] # "alive"

\* The wait loop has returned in a run whose gatherer and flag-controlled
\* worker were started.
C37_Witness ==
    /\ waitState = "returned"
    /\ threadState[MegaFileThread(1)] = "dead"
    /\ \E t \in AllThreads :
          /\ t # CreatorThread /\ ~IsMegaFileThread(t)
          /\ threadState[t] = "dead"

\* The runs with MaxDetailProfiles profiles, for what the detail gatherers write.
InitDetails ==
    /\ InitObjectOf({MaxDetailProfiles}, MaxFlagWorkers)
    /\ setupOutcome = "ok"
    /\ mainPc = "create_profiles_data_file"
    /\ PipeOff /\ PruneOff /\ StoreEmpty /\ LibOff

SpecDetails == InitDetails /\ [][Next]_vars

\* The processed lists a worker of this run uses: those of the scheduled
\* remote-file removers and compression workers.
UsedLists ==
    (IF \E t \in AllThreads : t.kind = "remoteFileRemover" /\ threadState[t] # "none"
     THEN RemovedLists ELSE {})
    \cup (IF threadState[Thread("compressImages", 0)] # "none" THEN ImageLists ELSE {})
    \cup (IF threadState[Thread("compressVideos", 0)] # "none" THEN VideoLists ELSE {})

\* C16: once _tear_down has run, it has dumped every processed list that a
\* worker of the run uses (the image and video lists included when compression
\* was enabled by compressAll alone); a dump whose write failed counts as made.
C16_TeardownFlushesActiveSets ==
    tearDownLog.called => UsedLists \subseteq (tearDownLog.flushed \cup tearDownLog.failed)

\* C17: once _tear_down has run, it has attempted the kill for each of the
\* four tool process names, whatever happened to the dumps before.
C17_TeardownAttemptsEveryKill ==
    tearDownLog.called => Range(tearDownLog.killed) = Range(ToolProcesses)

\* C18: the step of the wait loop that times out changes neither the registry
\* nor the state of any worker, and ends the wait; from then on every worker
\* in the registry stays there.
C18_TimeoutLeavesWorkers ==
    [][waitState' = "timedout" =>
          /\ mainPc' = "end"
          /\ Range(threads) \subseteq Range(threads')
          /\ mainPc = "while" => (threads' = threads /\ threadState' = threadState)]_vars

C18_Witness ==
    /\ waitState = "timedout"
    /\ mainPc = "end"
    /\ \E t \in Range(threads) : threadState[t] = "alive"

\* The workers run() schedules for the feature flags.
FlagThreads == {t \in AllThreads : t # CreatorThread /\ ~IsMegaFileThread(t)}

Started(t) == threadState[t] # "none"

\* The thread has been in the registry and is there no longer.
Removed(t) ==
    /\ Started(t)
    /\ t \notin Range(threads)
    /\ IsMegaFileThread(t) => (creatorIdx > t.n \/ creatorPc = "done")

\* C32: a step that takes a worker out of the registry is a step of the wait
\* loop on a worker that has finished; a worker that was taken out is never
\* put back, and the registry never holds a worker twice.
C32_RemovedOnCompletionOnce ==
    [][threads' # threads =>
          /\ \A t \in Range(threads) \ Range(threads') :
                mainPc = "for" /\ threadState[t] = "dead"
          /\ \A t \in Range(threads') \ Range(threads) : ~Removed(t)
          /\ Cardinality(Range(threads')) = Len(threads')]_vars

\* The wait loop has taken a finished worker out while another still runs.
C32_Witness ==
    \E t, u \in AllThreads :
        /\ Removed(t) /\ threadState[t] = "dead"
        /\ u \in Range(threads) /\ threadState[u] = "alive"
        /\ waitState = "running"

\* The processed lists in memory.
processedSets == <<pipeSets, removedRemoteFiles>>

\* The detail gatherer of profile p ends in this step.
GathererEnds(p) ==
    /\ threadState[MegaFileThread(p)] = "alive"
    /\ threadState'[MegaFileThread(p)] = "dead"

\* C31: a step changes a profile's fields only if it is the step of that
\* profile's detail gatherer, and then it changes nothing but the account
\* total, free and used space and the path mappings' used space of that
\* profile: every other profile, every processed set and the worker registry
\* stay as they were.
C31_GathererWritesOwnProfile ==
    [][\A p \in 1..MaxDetailProfiles :
          /\ profiles'[p] # profiles[p] => GathererEnds(p)
          /\ GathererEnds(p) =>
                /\ \A q \in 1..MaxDetailProfiles \ {p} : profiles'[q] = profiles[q]
                /\ processedSets' = processedSets
                /\ threads' = threads
                /\ \A t \in AllThreads \ {MegaFileThread(p)} :
                       threadState'[t] = threadState[t]]_vars

\* Both gatherers were started; the first has written its profile and the
\* second has not yet.
C31_Witness ==
    /\ profiles[1].account_usedSpace = Fetched
    /\ profiles[1].account_totalSpace = Fetched
    /\ profiles[1].account_freeSpace = Fetched
    /\ threadState[MegaFileThread(2)] = "alive"
    /\ profiles[2] = ProfilesAsImported[2]
    /\ \E t \in FlagThreads : threadState[t] = "dead"

C20_OneGroupPerEnabledFlag ==
    waitState # "notcalled" =>
        /\ Started(Thread("compressImages", 0))
              <=> (flags["compressImages"] \/ flags["compressAll"])
        /\ Started(Thread("compressVideos", 0))
              <=> (flags["compressVideos"] \/ flags["compressAll"])
        /\ Started(Thread("download", 0)) <=> flags["download"]
        /\ Started(Thread("upload", 0)) <=> flags["upload"]
        /\ \A p \in 1..numProfiles :
              Started(Thread("unfinishedFileRemover", p)) <=> flags["removeIncomplete"]
        /\ \A a \in 1..foundUserPass.n :
              Started(Thread("remoteFileRemover", a)) <=> flags["removeRemote"]

\* C28: the data an export writes holds a record for every profile whose
\* detail gathering has completed when the export fires.
C28_ExportHoldsEveryProfile ==
    [][(exportCount' > exportCount /\ exported'.fired)
          => GatheringCompleted \subseteq exported'.records]_vars

\* C29: the creator thread appends no worker to the registry while the wait
\* loop is inside its iteration over the registry.
C29_NoAppendDuringIteration ==
    [][(creatorPc = "append" /\ Len(threads') > Len(threads)) => mainPc # "for"]_vars

\* C15: whenever the wait loop has returned with every worker finished (the
\* registry is empty and run() has ended), _tear_down has been invoked.
C15_TeardownOnCompletion ==
    (mainPc = "end" /\ waitState = "returned") => tearDownCount >= 1

\* C1 (as stated): whenever _wait_for_threads_to_finish has ended, however it
\* ended, the export function has been invoked exactly once.
C1_ExportExactlyOnce ==
    waitState \in {"returned", "timedout", "raised"} => exportCount = 1

\* C1 (amended): the export function is never invoked twice, and it has been
\* invoked exactly once whenever the wait loop has ended without timing out
\* (by emptying the registry, or by the exception the export itself raised).
C1_ExportOnceUnlessTimedOut ==
    /\ exportCount <= 1
    /\ waitState \in {"returned", "raised"} => exportCount = 1

\* C1 witness: the wait loop emptied the registry of a run in which a detail
\* gatherer and a flag-controlled worker finished, and exported once.
C1_Witness ==
    /\ waitState = "returned"
    /\ exportCount = 1
    /\ threadState[MegaFileThread(1)] = "dead"
    /\ \E t \in AllThreads :
          /\ t # CreatorThread
          /\ ~IsMegaFileThread(t)
          /\ threadState[t] = "dead"

\* The detail gatherers of the run: one per profile, unless the creator thread
\* could not open the output file and started none.
GatherersOfRun ==
    IF creatorPc = "done" /\ creatorIdx = 0
    THEN {}
    ELSE {MegaFileThread(p) : p \in 1..numProfiles}

\* C2: at the moment the export fires, every detail-gathering worker of the
\* run has finished (none is still running, none is still to be started).
C2_ExportAfterGatherers ==
    [][exportCount' > exportCount =>
          \A t \in GatherersOfRun : threadState[t] = "dead"]_vars

\* =========================================================================
\* The Compression Pipeline
\* =========================================================================

\* The orchestrator is not running.
OrchOff ==
    /\ flags = [f \in FlagNames |-> FALSE]
    /\ foundUserPass = [set |-> FALSE, n |-> 0]
    /\ threads = <<>>
    /\ threadState = [t \in AllThreads |-> "none"]
    /\ mainPc = "off"
    /\ setupOutcome = "ok"
    /\ waitIdx = 0
    /\ megaFileThreads_found = FALSE
    /\ megaFileFinished = FALSE
    /\ waitState = "notcalled"
    /\ exportCount = 0
    /\ accountsDetailsDictSet = FALSE
    /\ accounts_details_dict = {}
    /\ profiles = ProfilesAsImported
    /\ exported = NotExported
    /\ creatorPc = "none"
    /\ creatorIdx = 0
    /\ tearDownCount = 0
    /\ assignedLists = {}
    /\ tearDownLog = NoTearDown

\* What a listed file's local path may be when the first pass starts: absent,
\* present and not yet processed, or present and recorded by an earlier run.
Conditions == {"missing", "fresh", "compressed", "unable"}

Preloaded(cond, f) ==
    {p \in DOMAIN cond :
        \/ f = "compressed_images" /\ IsImagePath(p) /\ cond[p] = "compressed"
        \/ f = "unable_to_compress_images" /\ IsImagePath(p) /\ cond[p] = "unable"
        \/ f = "compressed_videos" /\ IsVideoPath(p) /\ cond[p] = "compressed"
        \/ f = "unable_to_compress_videos" /\ IsVideoPath(p) /\ cond[p] = "unable"}

\* __init__, the profiles' path mappings (one per profile), the remote and the
\* local tree, and the files an earlier run left.
InitPipe ==
    /\ OrchOff
    /\ numProfiles = MaxPipeProfiles
    /\ remoteEntries \in
         {E \in SUBSET RemoteEntryUniverse :
             /\ Cardinality(E) <= MaxRemoteEntries
             /\ \A e1, e2 \in E : e1.path = e2.path => e1 = e2}
    /\ \E cond \in [LocalPathsOf(remoteEntries) -> Conditions] :
         /\ Cardinality({q \in DOMAIN cond : cond[q] \in {"compressed", "unable"}}) <= 1
         /\ localFiles = {q \in DOMAIN cond : cond[q] # "missing"}
         /\ files = [f \in FileNames |-> ListOf(Preloaded(cond, f))]
    /\ sidecars = {}
    /\ compressedImageFiles = <<>>
    /\ unableToCompressImageFiles = <<>>
    /\ compressedVideoFiles = <<>>
    /\ unableToCompressVideoFiles = <<>>
    /\ compressedFiles = <<>>
    /\ dumpFailed = {}
    /\ pipePc = [phase |-> "idle", raised |-> FALSE]
    /\ passes = [image |-> 0, video |-> 0]
    /\ loaded = [compressed |-> <<>>, unable |-> <<>>]
    /\ callCount = [c \in TranscoderCalls |-> 0]
    /\ lastCall = [called |-> FALSE]
    /\ addedUnableImages = {}
    /\ videoFile = VideoFileOff
    /\ PruneOff
    /\ LibOff

\* The runs of the program are enumerated with those that compress images
\* first: the two categories share no list and no file.
\* _create_thread_compress_image_files: the two image lists are read from their
\* files and the thread running _all_profiles_image_compression is started.
CreateThreadCompressImageFiles ==
    /\ pipePc.phase = "idle"
    /\ passes.image + passes.video < MaxPasses
    /\ passes.video = 0
    /\ compressedImageFiles' = load_file_as_list(files, "compressed_images")
    /\ unableToCompressImageFiles' = load_file_as_list(files, "unable_to_compress_images")
    /\ loaded' = [compressed |-> compressedImageFiles',
                  unable |-> unableToCompressImageFiles']
    /\ passes' = [passes EXCEPT !.image = @ + 1]
    /\ pipePc' = [phase |-> "find", cat |-> "image", m |-> 1]
    /\ lastCall' = [called |-> FALSE]
    /\ addedUnableImages' = {}
    /\ UNCHANGED <<remoteEntries, localFiles, sidecars, compressedVideoFiles,
                   unableToCompressVideoFiles, compressedFiles, storeVars, callCount>>
    /\ UNCHANGED <<videoFile, nonPipeVars>>

\* _create_thread_compress_video_files
CreateThreadCompressVideoFiles ==
    /\ pipePc.phase = "idle"
    /\ passes.image + passes.video < MaxPasses
    /\ compressedVideoFiles' = load_file_as_list(files, "compressed_videos")
    /\ unableToCompressVideoFiles' = load_file_as_list(files, "unable_to_compress_videos")
    /\ loaded' = [compressed |-> compressedVideoFiles',
                  unable |-> unableToCompressVideoFiles']
    /\ passes' = [passes EXCEPT !.video = @ + 1]
    /\ pipePc' = [phase |-> "find", cat |-> "video", m |-> 1]
    /\ lastCall' = [called |-> FALSE]
    /\ addedUnableImages' = {}
    /\ UNCHANGED <<remoteEntries, localFiles, sidecars, compressedImageFiles,
                   unableToCompressImageFiles, compressedFiles, storeVars, callCount>>
    /\ UNCHANGED <<videoFile, nonPipeVars>>

\* A worker that ends at the first path mapping it cannot go through.
NextMappingAborting(cat, m) == [phase |-> "idle", raised |-> TRUE]

\* _all_profiles_image_compression / _all_profiles_video_compression: the next
\* path mapping, or the end of the thread.
NextMapping(cat, m) ==
    IF m < numProfiles
    THEN [phase |-> "find", cat |-> cat, m |-> m + 1]
    ELSE [phase |-> "idle", raised |-> FALSE]

\* for line in lines
NextLine(cat, m, k) ==
    IF k < Len(Listing(m))
    THEN [phase |-> "lines", cat |-> cat, m |-> m, k |-> k + 1]
    ELSE NextMapping(cat, m)

\* The head of _find_image_files_to_compress and _find_video_files_to_compress:
\* the remote listing is fetched; an empty or failed listing ends the call.
GetRemoteFileDataRecursively(cat) ==
    /\ pipePc.phase = "find"
    /\ pipePc.cat = cat
    /\ \E listed \in BOOLEAN :
         LET lines == IF listed THEN Listing(pipePc.m) ELSE <<>>
         IN  pipePc' = IF lines = <<>>
                       THEN NextMapping(cat, pipePc.m)
                       ELSE [phase |-> "lines", cat |-> cat, m |-> pipePc.m, k |-> 1]
    /\ UNCHANGED <<remoteEntries, localFiles, sidecars, pipeSets, storeVars,
                   passes, pipeHistory>>
    /\ UNCHANGED <<videoFile, nonPipeVars>>

\* The candidate test without its look-up in the compressed list.
ImageGuardIgnoringCompressed(remote_type, remote_fileExt, local_filePath) ==
    /\ remote_type = "0"
    /\ remote_fileExt \in COMPRESSION_IMAGE_EXTENSIONS
    /\ local_filePath \in localFiles
    /\ local_filePath \notin Range(unableToCompressImageFiles)

\* The candidate test without its look-up in the unable-to-compress list.
ImageGuardIgnoringUnable(remote_type, remote_fileExt, local_filePath) ==
    /\ remote_type = "0"
    /\ remote_fileExt \in COMPRESSION_IMAGE_EXTENSIONS
    /\ local_filePath \in localFiles
    /\ local_filePath \notin Range(compressedImageFiles)

\* The candidate test of _find_image_files_to_compress (lines 719-721).
ImageGuard(remote_type, remote_fileExt, local_filePath) ==
    /\ remote_type = "0"
    /\ remote_fileExt \in COMPRESSION_IMAGE_EXTENSIONS
    /\ local_filePath \in localFiles
    /\ local_filePath \notin Range(compressedImageFiles)
    /\ local_filePath \notin Range(unableToCompressImageFiles)

\* The candidate test of _find_video_files_to_compress (lines 820-822).
VideoGuard(remote_type, remote_fileExt, local_filePath) ==
    /\ remote_type = "0"
    /\ remote_fileExt \in COMPRESSION_VIDEO_EXTENSIONS
    /\ local_filePath \in localFiles
    /\ local_filePath \notin Range(compressedVideoFiles)
    /\ local_filePath \notin Range(unableToCompressVideoFiles)

\* An append that forgets what the list held.
AppendUnableImageAlone(list, local_filePath) == <<local_filePath>>

\* An append that is dropped.
AppendUnableImageDropped(list, local_filePath) == list

\* self.__unableToCompressImageFiles.append(local_filePath)
AppendUnableImage(list, local_filePath) == Append(list, local_filePath)

\* The local path of line k of the listing of path mapping m.
LineLocalPath(m, k) ==
    LocalFilePath(LocalRoot(m), RemoteRoot(m), Listing(m)[k].path)

CountCall(op, local_filePath) ==
    [callCount EXCEPT ![[op |-> op, path |-> local_filePath]] = @ + 1]

\* One iteration of the loop of _find_image_files_to_compress. The transcoder
\* returns `result` and leaves a backup sidecar or not (`backup`); `removed`
\* is whether remove() of the sidecar succeeds, `ok` whether the dump does.
CompressImageLine ==
    /\ pipePc.phase = "lines"
    /\ pipePc.cat = "image"
    /\ LET m == pipePc.m
           line == Listing(m)[pipePc.k]
           local_filePath == LineLocalPath(m, pipePc.k)
       IN  /\ IF ImageGuard(line.type, line.path.ext, local_filePath)
              THEN \E result, backup \in BOOLEAN :
                     /\ callCount' = CountCall("image", local_filePath)
                     /\ lastCall' = [called |-> TRUE, op |-> "image",
                                     path |-> local_filePath, result |-> result,
                                     artifact |-> backup]
                     /\ IF result /\ backup
                        THEN \E removed, ok \in BOOLEAN :
                             /\ sidecars' = IF removed
                                            THEN sidecars \ {local_filePath}
                                            ELSE sidecars \cup {local_filePath}
                             /\ compressedFiles' = <<local_filePath>>
                             /\ files' = dump_list_into_file(files, compressedImageFiles,
                                                             "compressed_images", ok)
                             /\ dumpFailed' = DumpRecord(dumpFailed, "compressed_images", ok)
                             /\ UNCHANGED <<compressedImageFiles,
                                            unableToCompressImageFiles,
                                            addedUnableImages>>
                        ELSE \E ok \in BOOLEAN :
                             /\ sidecars' = IF backup
                                            THEN sidecars \cup {local_filePath}
                                            ELSE sidecars \ {local_filePath}
                             /\ unableToCompressImageFiles' =
                                    AppendUnableImage(unableToCompressImageFiles,
                                                      local_filePath)
                             /\ files' = dump_list_into_file(files,
                                                             unableToCompressImageFiles',
                                                             "unable_to_compress_images", ok)
                             /\ dumpFailed' = DumpRecord(dumpFailed,
                                                         "unable_to_compress_images", ok)
                             /\ addedUnableImages' = addedUnableImages \cup {local_filePath}
                             /\ UNCHANGED <<compressedImageFiles, compressedFiles>>
              ELSE UNCHANGED <<sidecars, pipeSets, storeVars, callCount, lastCall,
                               addedUnableImages>>
           /\ pipePc' = NextLine("image", m, pipePc.k)
    /\ UNCHANGED <<remoteEntries, localFiles, compressedVideoFiles,
                   unableToCompressVideoFiles, passes, loaded>>
    /\ UNCHANGED <<videoFile, nonPipeVars>>

\* A branch test that takes an existing target file for a success.
VideoBranchTrustingFile(result, newExists) ==
    IF newExists THEN "compressed" ELSE "failed"

\* if result == True and path.exists(newFilePath): ... elif
\* path.exists(newFilePath): ... else: ...
VideoBranch(result, newExists) ==
    IF result /\ newExists THEN "compressed"
    ELSE IF newExists THEN "discard"
    ELSE "failed"

\* One iteration of the loop of _find_video_files_to_compress. `cleared`,
\* `removedOld`, `renamed` and `removedNew` are whether the removals and the
\* rename succeed (the first three are retried, the last is not and its
\* exception ends the thread); the transcoder returns `result` and leaves the
\* target file or not (`produced`).
CompressVideoLine ==
    /\ pipePc.phase = "lines"
    /\ pipePc.cat = "video"
    /\ LET m == pipePc.m
           line == Listing(m)[pipePc.k]
           local_filePath == LineLocalPath(m, pipePc.k)
           newFilePath == NewFilePath(local_filePath)
       IN  IF VideoGuard(line.type, line.path.ext, local_filePath)
           THEN \E cleared \in IF newFilePath \in localFiles THEN BOOLEAN ELSE {TRUE},
                   result, produced \in BOOLEAN :
                  LET f0 == IF cleared THEN localFiles \ {newFilePath} ELSE localFiles
                      f1 == IF produced THEN f0 \cup {newFilePath} ELSE f0
                      call == [called |-> TRUE, op |-> "video",
                               path |-> local_filePath, result |-> result,
                               artifact |-> newFilePath \in f1,
                               removedOld |-> FALSE, renamed |-> FALSE]
                      branch == VideoBranch(result, newFilePath \in f1)
                  IN  /\ callCount' = CountCall("video", local_filePath)
                      /\ IF branch = "compressed"
                         THEN \E removedOld, renamed, ok \in BOOLEAN :
                              LET f2 == IF removedOld THEN f1 \ {local_filePath} ELSE f1
                                  f3 == IF renamed
                                        THEN (f2 \ {newFilePath})
                                                 \cup {WithoutNEW(newFilePath)}
                                        ELSE f2
                              IN  /\ localFiles' = f3
                                  /\ lastCall' = [call EXCEPT !.removedOld = removedOld,
                                                              !.renamed = renamed]
                                  /\ compressedVideoFiles' =
                                         Append(compressedVideoFiles, newFilePath)
                                  /\ files' = dump_list_into_file(files,
                                                                  compressedVideoFiles',
                                                                  "compressed_videos", ok)
                                  /\ dumpFailed' = DumpRecord(dumpFailed,
                                                              "compressed_videos", ok)
                                  /\ pipePc' = NextLine("video", m, pipePc.k)
                         ELSE IF branch = "discard"
                         THEN \E removedNew \in BOOLEAN :
                              /\ localFiles' = IF removedNew
                                               THEN f1 \ {newFilePath} ELSE f1
                              /\ lastCall' = call
                              /\ pipePc' = IF removedNew
                                           THEN NextLine("video", m, pipePc.k)
                                           ELSE [phase |-> "idle", raised |-> TRUE]
                              /\ UNCHANGED <<compressedVideoFiles, storeVars>>
                         ELSE /\ localFiles' = f1
                              /\ lastCall' = call
                              /\ pipePc' = NextLine("video", m, pipePc.k)
                              /\ UNCHANGED <<compressedVideoFiles, storeVars>>
           ELSE /\ pipePc' = NextLine("video", m, pipePc.k)
                /\ UNCHANGED <<localFiles, compressedVideoFiles, storeVars, callCount,
                               lastCall>>
    /\ UNCHANGED <<remoteEntries, sidecars, compressedImageFiles,
                   unableToCompressImageFiles, unableToCompressVideoFiles,
                   compressedFiles, passes, loaded, addedUnableImages>>
    /\ UNCHANGED <<videoFile, nonPipeVars>>

\* Runs that compress images only, over remotes that hold images only.
InitImages ==
    /\ InitPipe
    /\ \A e \in remoteEntries : IsImagePath(e.path)

NextImages ==
    \/ CreateThreadCompressImageFiles
    \/ GetRemoteFileDataRecursively("image")
    \/ CompressImageLine

SpecImages == InitImages /\ [][NextImages]_vars

\* Runs that compress videos only, over remotes that hold videos only.
InitVideos ==
    /\ InitPipe
    /\ \A e \in remoteEntries : IsVideoPath(e.path)

NextVideos ==
    \/ CreateThreadCompressVideoFiles
    \/ GetRemoteFileDataRecursively("video")
    \/ CompressVideoLine

SpecVideos == InitVideos /\ [][NextVideos]_vars

RETRIES == 100

\* The retry loops and the statement each is followed by.
RetryLoops == {"remove_new", "remove_old", "rename"}

AfterLoop(loop) ==
    CASE loop = "remove_new" -> "compress"
      [] loop = "remove_old" -> "rename"
      [] loop = "rename" -> "record"

\* A retry loop that goes on after an attempt that succeeded.
RetryWithoutBreak(v, ok) ==
    IF v.retry + 1 < RETRIES
    THEN [v EXCEPT !.retry = @ + 1, !.ok = ok]
    ELSE [v EXCEPT !.pc = AfterLoop(v.pc), !.retry = 0, !.ok = ok]

\* for retry in range(100): try: <call>; break; except: logger.debug(...)
\* One attempt: a call that returns breaks out of the loop, a call that
\* raises goes on to the next value of retry, and the loop ends with the range.
Retry(v, ok) ==
    IF ok
    THEN [v EXCEPT !.pc = AfterLoop(v.pc), !.retry = 0, !.ok = TRUE]
    ELSE IF v.retry + 1 < RETRIES
    THEN [v EXCEPT !.retry = @ + 1, !.ok = FALSE]
    ELSE [v EXCEPT !.pc = AfterLoop(v.pc), !.retry = 0, !.ok = FALSE]

\* A listed video file that passed the guard of lines 819-821, with or without
\* a target file an earlier run left.
InitRetries ==
    /\ OrchOff
    /\ numProfiles = 1
    /\ PassOff
    /\ PruneOff
    /\ StoreEmpty
    /\ LibOff
    /\ \E newExists \in BOOLEAN :
          videoFile = [pc |-> "exists_test", retry |-> 0, ok |-> FALSE,
                       oldExists |-> TRUE, newExists |-> newExists,
                       renamedExists |-> FALSE, result |-> FALSE,
                       recorded |-> FALSE]

retriesFrame == <<orchVars, remoteEntries, localFiles, sidecars, pipeSets, storeVars,
                  pipePc, passes, pipeHistory, pruneVars, libVars>>

\* if path.exists(newFilePath):
VideoExistsTest ==
    /\ videoFile.pc = "exists_test"
    /\ videoFile' = [videoFile EXCEPT
                        !.pc = IF videoFile.newExists THEN "remove_new" ELSE "compress"]
    /\ UNCHANGED retriesFrame

\* lines 827-832: remove(newFilePath), retried
VideoRemoveNew ==
    /\ videoFile.pc = "remove_new"
    /\ \E ok \in BOOLEAN :
          videoFile' = [Retry(videoFile, ok) EXCEPT !.newExists = @ /\ ~ok]
    /\ UNCHANGED retriesFrame

\* lines 833-836: compress_video_file, then the branch on its result and on
\* the target file
VideoCompress ==
    /\ videoFile.pc = "compress"
    /\ \E result, produced \in BOOLEAN :
          LET newExists == videoFile.newExists \/ produced
              branch == VideoBranch(result, newExists)
          IN  videoFile' = [videoFile EXCEPT
                               !.result = result,
                               !.newExists = newExists,
                               !.pc = CASE branch = "compressed" -> "remove_old"
                                        [] branch = "discard" -> "discard"
                                        [] branch = "failed" -> "log"]
    /\ UNCHANGED retriesFrame

\* lines 837-842: remove(local_filePath), retried
VideoRemoveOld ==
    /\ videoFile.pc = "remove_old"
    /\ \E ok \in BOOLEAN :
          videoFile' = [Retry(videoFile, ok) EXCEPT !.oldExists = @ /\ ~ok]
    /\ UNCHANGED retriesFrame

\* lines 844-849: rename(newFilePath, sub('_NEW', '', newFilePath)), retried
VideoRename ==
    /\ videoFile.pc = "rename"
    /\ \E ok \in BOOLEAN :
          videoFile' = [Retry(videoFile, ok) EXCEPT
                           !.newExists = @ /\ ~ok,
                           !.renamedExists = @ \/ ok]
    /\ UNCHANGED retriesFrame

\* lines 851-855: the append to the compressed list and its dump
VideoRecord ==
    /\ videoFile.pc = "record"
    /\ videoFile' = [videoFile EXCEPT !.recorded = TRUE, !.pc = "next_line"]
    /\ UNCHANGED retriesFrame

\* lines 857-858: remove(newFilePath), not retried: its exception ends the thread
VideoDiscard ==
    /\ videoFile.pc = "discard"
    /\ \E ok \in BOOLEAN :
          videoFile' = [videoFile EXCEPT
                           !.newExists = @ /\ ~ok,
                           !.pc = IF ok THEN "next_line" ELSE "raised"]
    /\ UNCHANGED retriesFrame

\* lines 860-862
VideoLog ==
    /\ videoFile.pc = "log"
    /\ videoFile' = [videoFile EXCEPT !.pc = "next_line"]
    /\ UNCHANGED retriesFrame

NextRetries ==
    \/ VideoExistsTest
    \/ VideoRemoveNew
    \/ VideoCompress
    \/ VideoRemoveOld
    \/ VideoRename
    \/ VideoRecord
    \/ VideoDiscard
    \/ VideoLog

\* The thread that processes the file keeps running.
SpecRetries == InitRetries /\ [][NextRetries]_vars /\ WF_vars(NextRetries)

\* C33: a retry loop never makes a 101st attempt; an attempt that succeeds
\* ends its loop, an attempt that fails is followed by the next one, and the
\* 100th failing attempt ends the loop too; in each case the statement after
\* the loop comes next, and the processing of the file comes to its end.
C33_RetryLoopsBounded ==
    /\ [](videoFile.pc \in RetryLoops => videoFile.retry + 1 <= RETRIES)
    /\ [][videoFile.pc \in RetryLoops =>
            IF videoFile'.ok \/ videoFile.retry + 1 = RETRIES
            THEN videoFile'.pc = AfterLoop(videoFile.pc)
            ELSE videoFile'.pc = videoFile.pc /\ videoFile'.retry = videoFile.retry + 1]_vars
    /\ <>(videoFile.pc \in {"next_line", "raised"})

\* Every attempt to remove the old file failed, an attempt to rename the new
\* one succeeded, and the file was recorded.
C33_Witness ==
    /\ videoFile.pc = "next_line"
    /\ videoFile.recorded
    /\ videoFile.oldExists
    /\ videoFile.renamedExists

NextPipe ==
    \/ CreateThreadCompressImageFiles
    \/ CreateThreadCompressVideoFiles
    \/ GetRemoteFileDataRecursively("image")
    \/ GetRemoteFileDataRecursively("video")
    \/ CompressImageLine
    \/ CompressVideoLine

SpecPipe == InitPipe /\ [][NextPipe]_vars

\* The list of one category, by role.
ListsOf(op) ==
    IF op = "image"
    THEN [compressed |-> compressedImageFiles, unable |-> unableToCompressImageFiles]
    ELSE [compressed |-> compressedVideoFiles, unable |-> unableToCompressVideoFiles]

\* C3: every invocation of the Media Transcoder is on a path that exists
\* locally and is in neither the matching compressed list nor the matching
\* unable-to-compress list, as they are in memory when the call is made and as
\* they were loaded when the pass started; so a second pass never invokes the
\* transcoder on a file that either list already holds.
C3_TranscoderOnlyOnCandidates ==
    [][\A c \in TranscoderCalls :
          callCount'[c] > callCount[c] =>
              /\ c.path \in localFiles
              /\ c.path \notin Range(ListsOf(c.op).compressed)
              /\ c.path \notin Range(ListsOf(c.op).unable)
              /\ c.path \notin Range(loaded.compressed)
              /\ c.path \notin Range(loaded.unable)]_vars

\* A second image pass has ended, and a file that the first pass put in the
\* unable-to-compress list, still present locally, was invoked once only.
C3_Witness ==
    /\ pipePc.phase = "idle"
    /\ passes.image = 2
    /\ \E q \in LocalPathUniverse :
         /\ callCount[[op |-> "image", path |-> q]] = 1
         /\ q \in Range(unableToCompressImageFiles)
         /\ q \in Range(loaded.unable)
         /\ q \in localFiles

\* C4 (as stated): the Media Transcoder is invoked at most once on a file,
\* over all the passes of the pipeline.
C4_NeverReprocessed ==
    \A c \in TranscoderCalls : callCount[c] <= 1

\* C5 (as stated): after an image transcoder call that returned success and
\* left the backup sidecar, the sidecar is gone and the path is in the
\* compressed-images list, in memory and in the compressed-images file.
C5_SuccessRecorded ==
    (lastCall.called /\ lastCall.op = "image" /\ lastCall.result /\ lastCall.artifact)
        => /\ lastCall.path \notin sidecars
           /\ lastCall.path \in Range(compressedImageFiles)
           /\ lastCall.path \in Range(files["compressed_images"])

\* C6: after an image transcoder call that left no backup sidecar (it returned
\* failure, or success without a sidecar), the path is in the
\* unable-to-compress-images list and not in the compressed-images list.
C6_NoSidecarMeansUnable ==
    (lastCall.called /\ lastCall.op = "image" /\ ~lastCall.artifact)
        => /\ lastCall.path \in Range(unableToCompressImageFiles)
           /\ lastCall.path \notin Range(compressedImageFiles)

\* The transcoder returned success without leaving a sidecar, and the path was
\* put in the unable-to-compress-images list.
C6_Witness ==
    /\ lastCall.called
    /\ lastCall.op = "image"
    /\ lastCall.result
    /\ ~lastCall.artifact
    /\ lastCall.path \in addedUnableImages
    /\ lastCall.path \in Range(unableToCompressImageFiles)

\* C10: when the image compression thread has ended and the last dump of the
\* unable-to-compress-images list did not fail, the file holds exactly the
\* paths loaded at the start plus every path added since, each once: no entry
\* added for one profile is lost to the entries added for another.
C10_NoUnableEntryLost ==
    (/\ pipePc.phase = "idle"
     /\ passes.image >= 1
     /\ "unable_to_compress_images" \notin dumpFailed)
        => LET persisted == files["unable_to_compress_images"]
               expected == Range(loaded.unable) \cup addedUnableImages
           IN  /\ Range(persisted) = expected
               /\ Len(persisted) = Cardinality(expected)

\* The pass added a path of profile 1 and a path of profile 2, and the file
\* holds both.
C10_Witness ==
    /\ pipePc.phase = "idle"
    /\ "unable_to_compress_images" \notin dumpFailed
    /\ \E q1, q2 \in addedUnableImages :
         /\ q1.root = LocalRoot(1)
         /\ q2.root = LocalRoot(2)
         /\ {q1, q2} \subseteq Range(files["unable_to_compress_images"])

\* C13: in the image passes no failing dump ends the thread; the in-memory
\* unable-to-compress-images list holds what was loaded plus every path added,
\* whether its dump failed or not; and once a dump of the list has succeeded
\* the file holds the whole list, the entries added under failing dumps too.
C13_FailingDumpNonFatal ==
    /\ pipePc.phase = "idle" => ~pipePc.raised
    /\ passes.image >= 1 =>
           Range(unableToCompressImageFiles) =
               Range(loaded.unable) \cup addedUnableImages
    /\ (addedUnableImages # {} /\ "unable_to_compress_images" \notin dumpFailed)
           => files["unable_to_compress_images"] = unableToCompressImageFiles

\* The dump of the unable-to-compress-images list has failed: the path is in
\* the list, not in the file, and the thread goes on with the next line or the
\* next path mapping.
C13_Witness ==
    /\ "unable_to_compress_images" \in dumpFailed
    /\ pipePc.phase \in {"lines", "find"}
    /\ lastCall.called
    /\ lastCall.path \in addedUnableImages
    /\ lastCall.path \in Range(unableToCompressImageFiles)
    /\ lastCall.path \notin Range(files["unable_to_compress_images"])

\* C14 (as stated): no path occurs twice in a persisted list.
C14_SnapshotsDeduplicated ==
    \A f \in FileNames :
        \A i, j \in DOMAIN files[f] : files[f][i] = files[f][j] => i = j

\* The last transcoder call was a video call.
VideoCalled == lastCall.called /\ lastCall.op = "video"

\* The path the compressed file has once it is renamed.
ResultingPath(local_filePath) == WithoutNEW(NewFilePath(local_filePath))

\* C21: after a video transcode that succeeded and whose removal and rename
\* succeeded, the compressed file is at the resulting path, the target name is
\* gone, and the resulting path is the one in the compressed-videos list.
C21_ResultingPathRecorded ==
    (VideoCalled /\ lastCall.result /\ lastCall.artifact
         /\ lastCall.removedOld /\ lastCall.renamed)
    => /\ ResultingPath(lastCall.path) \in localFiles
       /\ NewFilePath(lastCall.path) \notin localFiles
       /\ ResultingPath(lastCall.path) \in Range(compressedVideoFiles)

C23_FailedVideoRecordedUnable ==
    (VideoCalled /\ ~lastCall.result /\ ~lastCall.artifact)
    => lastCall.path \in Range(unableToCompressVideoFiles)

\* C24: after a successful video transcode whose removal of the original or
\* whose rename failed on every attempt, the target path is not in the
\* compressed-videos list.
C24_ExhaustedRetriesNotRecorded ==
    (VideoCalled /\ lastCall.result /\ lastCall.artifact
         /\ (~lastCall.removedOld \/ ~lastCall.renamed))
    => /\ NewFilePath(lastCall.path) \notin Range(compressedVideoFiles)
       /\ lastCall.path \notin Range(compressedVideoFiles)

\* C25: when the remote listing of a path mapping comes back empty or failed,
\* the step invokes no transcoder, changes no list, no persisted file and no
\* local file, raises nothing, and the worker is at the next path mapping (or
\* has ended normally after the last one).
C25_FailedListingSkipsMapping ==
    [][(pipePc.phase = "find" /\ pipePc'.phase # "lines")
       => /\ callCount' = callCount
          /\ lastCall' = lastCall
          /\ pipeSets' = pipeSets
          /\ files' = files
          /\ localFiles' = localFiles
          /\ pipePc' = IF pipePc.m < numProfiles
                       THEN [phase |-> "find", cat |-> pipePc.cat, m |-> pipePc.m + 1]
                       ELSE [phase |-> "idle", raised |-> FALSE]]_vars

\* The first path mapping lists a candidate, yet the worker is at the second
\* one without any transcoder call: the first listing failed.
C25_Witness ==
    /\ pipePc.phase = "find"
    /\ pipePc.m = 2
    /\ passes.image + passes.video = 1
    /\ \E k \in DOMAIN Listing(1) :
          LET line == Listing(1)[k]
              local_filePath == LineLocalPath(1, k)
          IN  IF pipePc.cat = "image"
              THEN ImageGuard(line.type, line.path.ext, local_filePath)
              ELSE VideoGuard(line.type, line.path.ext, local_filePath)
    /\ \A c \in DOMAIN callCount : callCount[c] = 0

\* =========================================================================
\* The Remote Pruning Pipeline
\* =========================================================================

\* Paths are sequences of characters here: the guard of the pipeline is a
\* test on the characters of two paths.
self_remoteRoot == <<"/", "r">>
self_localRoot == <<"\\", "l">>

\* The paths below the remote root that a listing may hold.
SubPaths == { <<"/", "a">>, <<"/", "a", "/", "b">>, <<"/", "a", "b">>, <<"/", "b">> }

RemotePaths == {self_remoteRoot \o sp : sp \in SubPaths}

\* sub('\\\\', '/', s): every backslash becomes a slash.
BackslashToSlash(s) == [i \in DOMAIN s |-> IF s[i] = "\\" THEN "/" ELSE s[i]]

\* sub(pattern, '', s): the occurrences of the pattern, found from the left and
\* not overlapping, are removed.
RECURSIVE SubEmpty(_, _)
SubEmpty(pattern, str) ==
    IF pattern = <<>> \/ Len(str) < Len(pattern) THEN str
    ELSE IF SubSeq(str, 1, Len(pattern)) = pattern
         THEN SubEmpty(pattern, SubSeq(str, Len(pattern) + 1, Len(str)))
         ELSE <<Head(str)>> \o SubEmpty(pattern, Tail(str))

\* file_subPath = sub(self.__remoteRoot, '', remote_filePath)
\* local_filePath = localRoot_adj + file_subPath
PruneLocalFilePath(remote_filePath) ==
    BackslashToSlash(self_localRoot) \o SubEmpty(self_remoteRoot, remote_filePath)

\* _get_remote_files_that_dont_exist_locally: the local paths, in the order of
\* the listing, of the remote files whose local path does not exist.
GetRemoteFilesThatDontExistLocally(listing, existing) ==
    SelectSeq([i \in DOMAIN listing |-> PruneLocalFilePath(listing[i])],
              LAMBDA q : q \notin existing)

\* x in y, for two strings
IsSubstring(x, y) ==
    \E i \in 0..(Len(y) - Len(x)) : SubSeq(y, i + 1, i + Len(x)) = x

\* A guard that never finds a removed entry.
HigherDirNeverRemoved(removed, filePath) == FALSE

\* The loop of lines 610-615: some removed entry occurs in filePath.
HigherDirRemoved(removed, filePath) ==
    \E i \in DOMAIN removed : IsSubstring(removed[i], filePath)

\* The listings: remote paths without repetition.
Listings ==
    {l \in UNION {[1..n -> RemotePaths] : n \in 0..MaxRemoteEntries} :
        \A i, j \in DOMAIN l : i # j => l[i] # l[j]}

\* The remote tree, the local tree and the removed-remote-files file an earlier
\* run left (empty, or holding one path).
InitPrune ==
    /\ OrchOff
    /\ numProfiles = 1
    /\ PipeOff
    /\ remoteFiles \in Listings
    /\ localFiles \in SUBSET {PruneLocalFilePath(remoteFiles[i]) : i \in DOMAIN remoteFiles}
    /\ \E earlier \in {<<>>} \cup {<<PruneLocalFilePath(r)>> : r \in RemotePaths} :
         files = [f \in FileNames |->
                     IF f = "removed_remote_files" THEN earlier ELSE <<>>]
    /\ dumpFailed = {}
    /\ removedRemoteFiles = <<>>
    /\ dontExistLocally = <<>>
    /\ prunePc = [phase |-> "start"]
    /\ deleteCalls = <<>>
    /\ notDeleted = {}
    /\ RemoversOff
    /\ LibOff

\* _create_threads_removed_remote_file_deletion, line 531
LoadRemovedRemoteFiles ==
    /\ prunePc.phase = "start"
    /\ removedRemoteFiles' = load_file_as_list(files, "removed_remote_files")
    /\ prunePc' = [phase |-> "loaded"]
    /\ UNCHANGED <<remoteFiles, dontExistLocally, deleteCalls, localFiles, storeVars>>
    /\ UNCHANGED <<removers, notDeleted, nonPruneVars>>

\* The thread that _create_threads_removed_remote_file_deletion starts: its
\* target is _get_remote_files_that_dont_exist_locally, whose result the
\* thread drops.
RemoteFileRemoverThread ==
    /\ prunePc.phase = "loaded"
    /\ dontExistLocally' = GetRemoteFilesThatDontExistLocally(remoteFiles, localFiles)
    /\ prunePc' = [phase |-> "thread_done"]
    /\ UNCHANGED <<remoteFiles, removedRemoteFiles, deleteCalls, localFiles, storeVars>>
    /\ UNCHANGED <<removers, notDeleted, nonPruneVars>>

\* for filePath in dontExistLocally
NextFilePath(list, i) ==
    IF i < Len(list) THEN [phase |-> "delete", i |-> i + 1]
    ELSE [phase |-> "call_done"]

\* _delete_remote_files_that_dont_exist_locally, called on the object: line 605
DeleteRemoteFilesThatDontExistLocally ==
    /\ prunePc.phase = "loaded"
    /\ dontExistLocally' = GetRemoteFilesThatDontExistLocally(remoteFiles, localFiles)
    /\ prunePc' = NextFilePath(dontExistLocally', 0)
    /\ UNCHANGED <<remoteFiles, removedRemoteFiles, deleteCalls, localFiles, storeVars>>
    /\ UNCHANGED <<removers, notDeleted, nonPruneVars>>

\* self.__removedRemoteFiles.append(filePath), line 617: the path is recorded
\* before remove_remote_file is called, whatever that call then does
\* (`deleted` is whether it deletes the file).
RecordRemoved(removed, filePath, deleted) == Append(removed, filePath)

\* One iteration of the loop of lines 607-622.  The value remove_remote_file
\* returns is dropped.
DeleteRemoteFile ==
    /\ prunePc.phase = "delete"
    /\ LET filePath == dontExistLocally[prunePc.i]
       IN  IF /\ filePath \notin Range(removedRemoteFiles)
              /\ ~HigherDirRemoved(removedRemoteFiles, filePath)
           THEN \E ok, deleted \in BOOLEAN :
                  /\ removedRemoteFiles' = RecordRemoved(removedRemoteFiles, filePath,
                                                         deleted)
                  /\ deleteCalls' = Append(deleteCalls, filePath)
                  /\ notDeleted' = IF deleted THEN notDeleted
                                   ELSE notDeleted \cup {filePath}
                  /\ files' = dump_list_into_file(files, removedRemoteFiles',
                                                  "removed_remote_files", ok)
                  /\ dumpFailed' = DumpRecord(dumpFailed, "removed_remote_files", ok)
           ELSE UNCHANGED <<removedRemoteFiles, deleteCalls, notDeleted, storeVars>>
    /\ prunePc' = NextFilePath(dontExistLocally, prunePc.i)
    /\ UNCHANGED <<remoteFiles, dontExistLocally, localFiles>>
    /\ UNCHANGED <<removers, nonPruneVars>>

NextPrune ==
    \/ LoadRemovedRemoteFiles
    \/ RemoteFileRemoverThread
    \/ DeleteRemoteFilesThatDontExistLocally
    \/ DeleteRemoteFile

SpecPrune == InitPrune /\ [][NextPrune]_vars

\* q is a directory above p: p is q, a separator, and more.
IsPathPrefix(q, r) ==
    /\ Len(q) < Len(r)
    /\ SubSeq(r, 1, Len(q)) = q
    /\ r[Len(q) + 1] = "/"

PruneLocalPaths == {PruneLocalFilePath(r) : r \in RemotePaths}

\* C7: no step issues a delete call for, or appends to the removed list, a
\* path that has a directory above it in the removed list.
C7_PrefixGuard ==
    [][\A r \in PruneLocalPaths :
          (\E q \in Range(removedRemoteFiles) : IsPathPrefix(q, r)) =>
              /\ (Len(deleteCalls') > Len(deleteCalls)
                     => deleteCalls'[Len(deleteCalls')] # r)
              /\ (r \in Range(removedRemoteFiles')
                     => r \in Range(removedRemoteFiles))]_vars

\* The loop has passed a path that is missing locally and has a directory
\* above it in the removed list: no delete call was made for it and it is not
\* in the list.
C7_Witness ==
    /\ prunePc.phase = "call_done"
    /\ \E r \in Range(dontExistLocally) :
         /\ \E q \in Range(removedRemoteFiles) : IsPathPrefix(q, r)
         /\ r \notin Range(deleteCalls)
         /\ r \notin Range(removedRemoteFiles)

\* C8 (as stated): when the worker that run() schedules has ended, every
\* remote file whose local path is missing and which the removed list does not
\* guard has had its delete call and is in the removed list and in its file.
C8_ScheduledWorkerDeletes ==
    prunePc.phase = "thread_done" =>
        \A r \in Range(GetRemoteFilesThatDontExistLocally(remoteFiles, localFiles)) :
            \/ r \in Range(load_file_as_list(files, "removed_remote_files"))
            \/ HigherDirRemoved(load_file_as_list(files, "removed_remote_files"), r)
            \/ /\ r \in Range(deleteCalls)
               /\ r \in Range(removedRemoteFiles)

\* C9 (as stated): when the loop has ended, every path that is missing locally
\* has had its delete call, unless it is in the removed list or a removed entry
\* is a directory above it.
C9_SkippedOnlyBehindPathPrefix ==
    prunePc.phase = "call_done" =>
        \A r \in Range(dontExistLocally) :
            \/ r \in Range(deleteCalls)
            \/ r \in Range(removedRemoteFiles)
            \/ \E q \in Range(removedRemoteFiles) : IsPathPrefix(q, r)

\* C34: every path handed to remove_remote_file is the remote path of a
\* listed remote file.
C34_DeleteGetsRemotePath ==
    \A i \in DOMAIN deleteCalls : deleteCalls[i] \in Range(remoteFiles)

\* C38: a path the deletion has handed to remove_remote_file is in the removed
\* list only if that call deleted the file.
C38_RecordedOnlyWhenDeleted ==
    \A p \in Range(removedRemoteFiles) :
        p \in Range(deleteCalls) => p \notin notDeleted

\* ------------------------------------------- two deletions side by side

\* The deletion of lines 581-622 called for two accounts at once, each call on a
\* thread of its own. The calls share self.__removedRemoteFiles, the gateway
\* and the removed-remote-files file; the source takes no lock, so a step of
\* one call can fall between any two statements of the other.

\* for filePath in dontExistLocally (line 607)
RemoverNext(r, i) ==
    IF i < Len(r.list) THEN [r EXCEPT !.phase = "check", !.i = i + 1]
    ELSE [r EXCEPT !.phase = "done"]

\* Both accounts' remote trees (under the one self.__remoteRoot), the local
\* tree, and the removed-remote-files file an earlier run left, which line 531
\* has loaded before the threads start.
InitRemovers ==
    /\ OrchOff
    /\ numProfiles = 1
    /\ PipeOff
    /\ remoteFiles = <<>>
    /\ dontExistLocally = <<>>
    /\ prunePc = [phase |-> "off"]
    /\ deleteCalls = <<>>
    /\ notDeleted = {}
    /\ removers \in [Removers -> {[phase |-> "start", listing |-> l, list |-> <<>>,
                                   i |-> 0, snapshot |-> <<>>] : l \in Listings}]
    /\ localFiles \in SUBSET UNION {{PruneLocalFilePath(r) : r \in Range(removers[w].listing)} :
                                       w \in Removers}
    /\ \E earlier \in {<<>>} \cup {<<PruneLocalFilePath(r)>> : r \in RemotePaths} :
         files = [f \in FileNames |->
                     IF f = "removed_remote_files" THEN earlier ELSE <<>>]
    /\ dumpFailed = {}
    /\ removedRemoteFiles = load_file_as_list(files, "removed_remote_files")
    /\ LibOff

\* The state a step of one call leaves alone.
removerFrame == <<remoteFiles, dontExistLocally, prunePc, localFiles, notDeleted,
                  nonPruneVars>>

\* line 605
RemoverGet(w) ==
    /\ removers[w].phase = "start"
    /\ LET list == GetRemoteFilesThatDontExistLocally(removers[w].listing, localFiles)
       IN  removers' = [removers EXCEPT
                           ![w] = RemoverNext([@ EXCEPT !.list = list], 0)]
    /\ UNCHANGED <<removedRemoteFiles, deleteCalls, storeVars, removerFrame>>

\* lines 608-616: the membership test and the loop over the removed list
RemoverCheck(w) ==
    /\ removers[w].phase = "check"
    /\ LET filePath == removers[w].list[removers[w].i]
       IN  removers' = [removers EXCEPT ![w] =
               IF /\ filePath \notin Range(removedRemoteFiles)
                  /\ ~HigherDirRemoved(removedRemoteFiles, filePath)
               THEN [@ EXCEPT !.phase = "append"]
               ELSE RemoverNext(@, @.i)]
    /\ UNCHANGED <<removedRemoteFiles, deleteCalls, storeVars, removerFrame>>

\* line 617
RemoverAppend(w) ==
    /\ removers[w].phase = "append"
    /\ removedRemoteFiles' = Append(removedRemoteFiles, removers[w].list[removers[w].i])
    /\ removers' = [removers EXCEPT ![w].phase = "remove"]
    /\ UNCHANGED <<deleteCalls, storeVars, removerFrame>>

\* lines 618-619
RemoverRemove(w) ==
    /\ removers[w].phase = "remove"
    /\ deleteCalls' = Append(deleteCalls, removers[w].list[removers[w].i])
    /\ removers' = [removers EXCEPT ![w].phase = "dump"]
    /\ UNCHANGED <<removedRemoteFiles, storeVars, removerFrame>>

\* lines 621-622, entering Lib.dump_list_into_file: npList = array(itemList)
\* copies the list as it is at that moment.
RemoverDumpCopy(w) ==
    /\ removers[w].phase = "dump"
    /\ removers' = [removers EXCEPT ![w].phase = "savez",
                                    ![w].snapshot = removedRemoteFiles]
    /\ UNCHANGED <<removedRemoteFiles, deleteCalls, storeVars, removerFrame>>

\* Lib.dump_list_into_file: savez_compressed(filePath, list=npList)
RemoverDumpSave(w) ==
    /\ removers[w].phase = "savez"
    /\ \E ok \in BOOLEAN :
         /\ files' = dump_list_into_file(files, removers[w].snapshot,
                                         "removed_remote_files", ok)
         /\ dumpFailed' = DumpRecord(dumpFailed, "removed_remote_files", ok)
    /\ removers' = [removers EXCEPT ![w] = RemoverNext(@, @.i)]
    /\ UNCHANGED <<removedRemoteFiles, deleteCalls, removerFrame>>

NextRemovers ==
    \E w \in Removers :
        \/ RemoverGet(w)
        \/ RemoverCheck(w)
        \/ RemoverAppend(w)
        \/ RemoverRemove(w)
        \/ RemoverDumpCopy(w)
        \/ RemoverDumpSave(w)

SpecRemovers == InitRemovers /\ [][NextRemovers]_vars

\* The list holds no path twice.
NoRepeat(list) == \A i, j \in DOMAIN list : i # j => list[i] # list[j]

\* Both calls have returned.
RemoversDone == \A w \in Removers : removers[w].phase = "done"

\* C30: with the deletion running for two accounts at once, no path is
\* appended to the removed list twice, no path is handed to the gateway for
\* deletion twice, and once both calls have returned with no dump having
\* failed, the removed-remote-files file holds every path of the list in
\* memory.
C30_DeletionsDoNotInterleave ==
    /\ NoRepeat(removedRemoteFiles)
    /\ NoRepeat(deleteCalls)
    /\ (RemoversDone /\ "removed_remote_files" \notin dumpFailed /\ deleteCalls # <<>>)
           => Range(removedRemoteFiles) \subseteq
                  Range(load_file_as_list(files, "removed_remote_files"))

\* =========================================================================
\* The three pipelines and their persisted lists
\* =========================================================================

InitAdds == InitPipe \/ InitPrune

NextAdds == NextPipe \/ NextPrune

SpecAdds == InitAdds /\ [][NextAdds]_vars

\* The list in memory and the file it is persisted in agree, unless the
\* latest dump into the file failed.
Flushed(list, f) == f \notin dumpFailed => files[f] = list

Extends(old, new) ==
    /\ Len(old) <= Len(new)
    /\ SubSeq(new, 1, Len(old)) = old

\* C35: apart from the step that loads a list from its file when its worker
\* is scheduled, every step leaves each of the five processed lists with all
\* the entries it had.
C35_ProcessedSetsOnlyGrow ==
    [][/\ passes'.image = passes.image =>
            /\ Extends(compressedImageFiles, compressedImageFiles')
            /\ Extends(unableToCompressImageFiles, unableToCompressImageFiles')
       /\ passes'.video = passes.video =>
            /\ Extends(compressedVideoFiles, compressedVideoFiles')
            /\ Extends(unableToCompressVideoFiles, unableToCompressVideoFiles')
       /\ prunePc.phase # "start" =>
            Extends(removedRemoteFiles, removedRemoteFiles')]_vars

\* A list that was loaded with an entry has been appended to.
C35_Witness ==
    \/ /\ passes.image >= 1
       /\ loaded.unable # <<>>
       /\ Len(unableToCompressImageFiles) > Len(loaded.unable)
    \/ /\ prunePc.phase = "call_done"
       /\ Len(removedRemoteFiles) > Len(deleteCalls)
       /\ deleteCalls # <<>>

\* =========================================================================
\* The Persistent List Store (libs/lib.py)
\* =========================================================================

\* The padding character of a numpy string array.
NUL == "NUL"

\* The paths a list may hold, and the files of the store under study.
LibPaths == PruneLocalPaths
LibFiles == {"removed_remote_files", "compressed_images"}

LibLists == UNION {[1..n -> LibPaths] : n \in 0..MaxItems}

MaxOf(S) == CHOOSE x \in S : \A y \in S : y <= x

\* numpy.array(itemList): a fixed-width string array; every item is padded
\* with NUL to the width of the longest.
array(itemList) ==
    IF itemList = <<>> THEN [itemsize |-> 0, data |-> <<>>]
    ELSE LET w == MaxOf({Len(itemList[i]) : i \in DOMAIN itemList})
         IN  [itemsize |-> w,
              data |-> [i \in DOMAIN itemList |->
                          itemList[i] \o [k \in 1..(w - Len(itemList[i])) |-> NUL]]]

RECURSIVE StripNul(_)
StripNul(str) ==
    IF str # <<>> /\ str[Len(str)] = NUL
    THEN StripNul(SubSeq(str, 1, Len(str) - 1))
    ELSE str

\* A tolist that returns the items as they are stored.
tolist_padded(npList) == npList.data

\* ndarray.tolist(): the items, each without its trailing NULs.
tolist(npList) == [i \in DOMAIN npList.data |-> StripNul(npList.data[i])]

\* What a path of the disk holds.
Absent == [kind |-> "absent"]
Corrupt == [kind |-> "corrupt"]
Npz(npList) == [kind |-> "npz", list |-> npList]

\* The body of Lib.dump_list_into_file on one file. savez_compressed writes the
\* file, or raises before it wrote anything, or raises having written a part;
\* the exception is caught and logged.
DumpListIntoFileOn(file, itemList, outcome) ==
    LET npList == array(itemList)
    IN  IF outcome = "written" THEN Npz(npList)
        ELSE IF outcome = "truncated" THEN Corrupt
        ELSE file

\* A load_file_as_list that lets the exception of numpy.load through.
LoadFileAsListUnguarded(file, readable) ==
    IF file.kind = "absent" THEN [items |-> <<>>, raised |-> FALSE]
    ELSE IF file.kind = "npz" /\ readable
         THEN [items |-> tolist(file.list), raised |-> FALSE]
         ELSE [items |-> <<>>, raised |-> TRUE]

\* The body of Lib.load_file_as_list on one file: [] when path.isfile fails,
\* [] when numpy.load raises (the finally clause returns items), the list
\* otherwise.
LoadFileAsListOn(file, readable) ==
    IF file.kind = "absent" THEN [items |-> <<>>, raised |-> FALSE]
    ELSE IF file.kind = "npz" /\ readable
         THEN [items |-> tolist(file.list), raised |-> FALSE]
         ELSE [items |-> <<>>, raised |-> FALSE]

InitLib ==
    /\ OrchOff
    /\ numProfiles = 1
    /\ PipeOff
    /\ PruneOff
    /\ StoreEmpty
    /\ callerList \in LibLists
    /\ disk = [f \in LibFiles |-> Absent]
    /\ intact = {}
    /\ loadResult = [called |-> FALSE]

\* Lib.dump_list_into_file(callerList, filePath)
DumpListIntoFile(filePath) ==
    /\ \E outcome \in {"written", "failed", "truncated"} :
         /\ disk' = [disk EXCEPT ![filePath] =
                        DumpListIntoFileOn(@, callerList, outcome)]
         /\ intact' = IF outcome = "written" THEN intact \cup {filePath}
                      ELSE IF outcome = "truncated" THEN intact \ {filePath}
                      ELSE intact
    /\ UNCHANGED <<callerList, loadResult>>
    /\ UNCHANGED nonLibVars

\* Lib.load_file_as_list(filePath)
LoadFileAsList(filePath) ==
    /\ \E readable \in BOOLEAN :
         LET r == LoadFileAsListOn(disk[filePath], readable)
         IN  loadResult' = [called |-> TRUE, filePath |-> filePath,
                            state |-> IF disk[filePath].kind # "npz"
                                      THEN disk[filePath].kind
                                      ELSE IF readable THEN "npz" ELSE "unreadable",
                            afterDump |-> filePath \in intact,
                            items |-> r.items, raised |-> r.raised]
    /\ UNCHANGED <<callerList, disk, intact>>
    /\ UNCHANGED nonLibVars

\* The file is damaged behind the program's back.
DamageFile(filePath) ==
    /\ disk[filePath].kind = "npz"
    /\ disk' = [disk EXCEPT ![filePath] = Corrupt]
    /\ intact' = intact \ {filePath}
    /\ UNCHANGED <<callerList, loadResult>>
    /\ UNCHANGED nonLibVars

NextLib ==
    \/ \E f \in LibFiles : DumpListIntoFile(f)
    \/ \E f \in LibFiles : LoadFileAsList(f)
    \/ \E f \in LibFiles : DamageFile(f)

SpecLib == InitLib /\ [][NextLib]_vars

NoDuplicates(list) == \A i, j \in DOMAIN list : list[i] = list[j] => i = j

\* C11: a load of a file that holds what a dump of a non-empty list without
\* duplicates wrote returns the paths of that list.
C11_RoundTrip ==
    (/\ loadResult.called
     /\ loadResult.afterDump
     /\ loadResult.state = "npz"
     /\ callerList # <<>>
     /\ NoDuplicates(callerList))
        => Range(loadResult.items) = Range(callerList)

\* A list of two paths of different lengths was dumped and loaded back.
C11_Witness ==
    /\ loadResult.called
    /\ loadResult.afterDump
    /\ loadResult.state = "npz"
    /\ Len(callerList) = 2
    /\ Len(callerList[1]) # Len(callerList[2])
    /\ loadResult.items = callerList

\* C12: a load of an absent, unreadable or corrupt file returns the empty list
\* and raises nothing.
C12_LoadFailsSoft ==
    (loadResult.called /\ loadResult.state \in {"absent", "unreadable", "corrupt"})
        => loadResult.items = <<>> /\ ~loadResult.raised

\* A corrupt file was loaded: numpy.load raised and the caller got [].
C12_Witness ==
    /\ loadResult.called
    /\ loadResult.state = "corrupt"
    /\ loadResult.items = <<>>
    /\ ~loadResult.raised

====
